---------------------------- MODULE Spec2Model ----------------------------
(***************************************************************************)
(* Model of the sales_chart pipeline (src/src/main.rs): header validation, *)
(* the rayon try_fold / try_reduce aggregation of the CSV records, the     *)
(* preparation of the two plot series and the three chart calls of main.   *)
(*                                                                         *)
(* Text is a sequence of one-character strings.  An f64 is a record: a     *)
(* finite value (an integer number of units, kept to MantissaBits          *)
(* significant bits by round-to-nearest-even after every operation) or NaN.*)
(* Infinities, fractions and exponents are outside the modelled values.    *)
(***************************************************************************)
EXTENDS Integers, Sequences, FiniteSets, TLC

VARIABLES
    pc,               \* position of main / process_sales_data
    headers,          \* the header record read by rdr.headers()
    idx,              \* month_index, product_index, sales_index
    data_rows,        \* the data rows of the file, as rdr.records() yields them
    records,          \* the Vec<StringRecord> collected from rdr.records()
    workers,          \* the pieces of the parallel fold and their partial results
    full,             \* the AtomicBool the try_reduce consumer shares between pieces
    sales_by_month,   \* HashMap<DateKey, f64>
    sales_by_product, \* HashMap<String, f64>
    err,              \* the Box<dyn Error> main reports
    monthly_data,     \* Vec<(NaiveDate, f64)>
    product_data,     \* Vec<(String, f64)>
    charts            \* the charts drawn so far, each with the series it was drawn from

vars == <<pc, headers, idx, data_rows, records, workers, full, sales_by_month,
          sales_by_product, err, monthly_data, product_data, charts>>

-----------------------------------------------------------------------------
(* Bounds of the model.                                                    *)

MaxRows == 3        \* data rows in the file

MaxCols == 4        \* columns of a header drawn for schema validation

MaxKeys == 3        \* entries of an aggregate drawn for prepare_data_for_plotting

MantissaBits == 4   \* significant bits an f64 keeps (53 in the program)

-----------------------------------------------------------------------------
(* Helpers on sets, sequences and numbers.                                 *)

RECURSIVE Pow2(_)
Pow2(n) == IF n = 0 THEN 1 ELSE 2 * Pow2(n - 1)

Abs(x) == IF x < 0 THEN -x ELSE x

RECURSIVE SumSeq(_)
SumSeq(s) == IF s = <<>> THEN 0 ELSE Head(s) + SumSeq(Tail(s))

RECURSIVE SumAbs(_)
SumAbs(s) == IF s = <<>> THEN 0 ELSE Abs(Head(s)) + SumAbs(Tail(s))

Range(s) == {s[i] : i \in DOMAIN s}

SeqsUpTo(S, n) == UNION {[1..k -> S] : k \in 0..n}

Perms(S) == {s \in [1..Cardinality(S) -> S] : \A i, j \in DOMAIN s : i # j => s[i] # s[j]}

EmptyMap == <<>>

-----------------------------------------------------------------------------
(* Text.                                                                   *)

UpperChars == <<"A","B","C","D","E","F","G","H","I","J","K","L","M",
                "N","O","P","Q","R","S","T","U","V","W","X","Y","Z">>

LowerChars == <<"a","b","c","d","e","f","g","h","i","j","k","l","m",
                "n","o","p","q","r","s","t","u","v","w","x","y","z">>

DigitChars == <<"0","1","2","3","4","5","6","7","8","9">>

CharToLower(c) ==
    IF \E i \in DOMAIN UpperChars : UpperChars[i] = c
    THEN LowerChars[CHOOSE i \in DOMAIN UpperChars : UpperChars[i] = c]
    ELSE c

\* str::to_lowercase
ToLowercase(s) == [i \in DOMAIN s |-> CharToLower(s[i])]

IsDigit(c) == \E i \in DOMAIN DigitChars : DigitChars[i] = c

DigitVal(c) == (CHOOSE i \in DOMAIN DigitChars : DigitChars[i] = c) - 1

\* the value of the decimal numeral s[lo..hi]
RECURSIVE DecimalValue(_, _, _)
DecimalValue(s, lo, hi) ==
    IF hi < lo THEN 0 ELSE 10 * DecimalValue(s, lo, hi - 1) + DigitVal(s[hi])

\* how many digits start at s[i], at most max of them
RECURSIVE CountDigits(_, _, _)
CountDigits(s, i, max) ==
    IF max = 0 \/ i > Len(s) \/ ~IsDigit(s[i]) THEN 0
    ELSE 1 + CountDigits(s, i + 1, max - 1)

\* the decimal numeral of n >= 0
RECURSIVE ToDecimal(_)
ToDecimal(n) ==
    IF n < 10 THEN <<DigitChars[n + 1]>>
    ELSE Append(ToDecimal(n \div 10), DigitChars[(n % 10) + 1])

-----------------------------------------------------------------------------
(* f64.                                                                    *)

NaN == [cls |-> "nan", v |-> 0]

Fin(n) == [cls |-> "fin", v |-> n]

Zero == Fin(0)

IsNaN(a) == a.cls = "nan"

\* the spacing of the representable values around x >= 0
RECURSIVE Ulp(_)
Ulp(x) == IF x < Pow2(MantissaBits) THEN 1 ELSE 2 * Ulp(x \div 2)

\* round-to-nearest, ties-to-even, to MantissaBits significant bits
Round(x) ==
    LET a == Abs(x)
        u == Ulp(a)
        q == a \div u
        r == a % u
        up == (2 * r > u) \/ (2 * r = u /\ q % 2 = 1)
        m == (IF up THEN q + 1 ELSE q) * u
    IN  IF x < 0 THEN -m ELSE m

\* f64 addition (+=)
FAdd(a, b) == IF IsNaN(a) \/ IsNaN(b) THEN NaN ELSE Fin(Round(a.v + b.v))

\* f64::partial_cmp
PartialCmp(a, b) ==
    IF IsNaN(a) \/ IsNaN(b) THEN "None"
    ELSE IF a.v < b.v THEN "Less"
    ELSE IF a.v > b.v THEN "Greater"
    ELSE "Equal"

Ok(x) == [ok |-> TRUE, val |-> x]

Err(e) == [ok |-> FALSE, err |-> e]

NanText == <<"n","a","n">>

\* str::parse::<f64> on the texts of the model: an optionally signed run of
\* digits, or "nan" in any letter case
ParseF64(s) ==
    IF s = <<>> THEN Err("cannot parse float from empty string")
    ELSE IF ToLowercase(s) = NanText THEN Ok(NaN)
    ELSE LET signed == s[1] \in {"+", "-"}
             lo == IF signed THEN 2 ELSE 1
             n == CountDigits(s, lo, Len(s))
         IN  IF n = 0 \/ lo + n # Len(s) + 1 THEN Err("invalid float literal")
             ELSE LET mag == DecimalValue(s, lo, Len(s))
                  IN  Ok(Fin(Round(IF s[1] = "-" THEN -mag ELSE mag)))

-----------------------------------------------------------------------------
(* chrono::NaiveDate.                                                      *)

IsLeap(y) == (y % 4 = 0 /\ y % 100 # 0) \/ y % 400 = 0

DaysInMonth(y, m) ==
    IF m = 2 THEN (IF IsLeap(y) THEN 29 ELSE 28)
    ELSE IF m \in {4, 6, 9, 11} THEN 30 ELSE 31

RECURSIVE DaysBeforeMonth(_, _)
DaysBeforeMonth(y, m) ==
    IF m = 1 THEN 0 ELSE DaysBeforeMonth(y, m - 1) + DaysInMonth(y, m - 1)

DaysBeforeYear(y) ==
    365 * (y - 1) + ((y - 1) \div 4) - ((y - 1) \div 100) + ((y - 1) \div 400)

Date(y, m, d) == [y |-> y, m |-> m, d |-> d]

\* NaiveDate::num_days_from_ce: January 1 of year 1 is day 1
NumDaysFromCe(date) ==
    DaysBeforeYear(date.y) + DaysBeforeMonth(date.y, date.m) + date.d

\* NaiveDate::from_num_days_from_ce
FromNumDaysFromCe(days) ==
    LET y == CHOOSE c \in ((days \div 366) + 1)..((days \div 365) + 1) :
                 DaysBeforeYear(c) < days /\ days <= DaysBeforeYear(c + 1)
        rest == days - DaysBeforeYear(y)
        m == CHOOSE c \in 1..12 :
                 DaysBeforeMonth(y, c) < rest
                 /\ rest <= DaysBeforeMonth(y, c) + DaysInMonth(y, c)
    IN  Date(y, m, rest - DaysBeforeMonth(y, m))

\* Ord for NaiveDate
DateLess(a, b) ==
    \/ a.y < b.y
    \/ a.y = b.y /\ a.m < b.m
    \/ a.y = b.y /\ a.m = b.m /\ a.d < b.d

\* NaiveDate::parse_from_str(s, "%Y-%m-%d"): up to 4 digits of year, "-", up
\* to 2 digits of month, "-", up to 2 digits of day, then the end of the text
ParseFromStr(s) ==
    LET ny == CountDigits(s, 1, 4)
        p1 == 1 + ny
        nm == CountDigits(s, p1 + 1, 2)
        p2 == p1 + 1 + nm
        nd == CountDigits(s, p2 + 1, 2)
        p3 == p2 + 1 + nd
    IN  IF ny = 0 THEN Err("input contains invalid characters")
        ELSE IF p1 > Len(s) THEN Err("premature end of input")
        ELSE IF s[p1] # "-" \/ nm = 0 THEN Err("input contains invalid characters")
        ELSE IF p2 > Len(s) THEN Err("premature end of input")
        ELSE IF s[p2] # "-" \/ nd = 0 THEN Err("input contains invalid characters")
        ELSE IF p3 # Len(s) + 1 THEN Err("trailing input")
        ELSE LET y == DecimalValue(s, 1, ny)
                 m == DecimalValue(s, p1 + 1, p1 + nm)
                 d == DecimalValue(s, p2 + 1, p2 + nd)
             IN  IF m \notin 1..12 THEN Err("input is out of range")
                 ELSE IF d \notin 1..DaysInMonth(y, m) THEN Err("input is out of range")
                 ELSE Ok(Date(y, m, d))

\* date_to_key
date_to_key(date) == NumDaysFromCe(date)

\* key_to_date
key_to_date(key) == FromNumDaysFromCe(key)

-----------------------------------------------------------------------------
(* Errors (Box<dyn Error>): what failed, the offending text, the cause and,*)
(* for a csv error, the ordinal of the data row.                           *)

NoError == [kind |-> "none", text |-> <<>>, cause |-> "", row |-> 0]

Error(kind, text, cause) == [kind |-> kind, text |-> text, cause |-> cause, row |-> 0]

CsvError(row, cause) == [kind |-> "csv", text |-> <<>>, cause |-> cause, row |-> row]

-----------------------------------------------------------------------------
(* Schema validation.                                                      *)

Month == <<"m","o","n","t","h">>

Product == <<"p","r","o","d","u","c","t">>

SalesAmount == <<"s","a","l","e","s","_","a","m","o","u","n","t">>

expected_headers == <<Month, Product, SalesAmount>>

\* a slip: the names compared as written, not lower-cased
HasColumnExact(h, expected) == \E i \in DOMAIN h : h[i] = expected

HasColumn(h, expected) == \E i \in DOMAIN h : ToLowercase(h[i]) = expected

\* validate_csv_structure
validate_csv_structure(h) ==
    IF Len(h) # 3 THEN Err(Error("schema", <<>>, "Invalid column length"))
    ELSE IF \E e \in DOMAIN expected_headers : ~HasColumn(h, expected_headers[e])
    THEN LET e == CHOOSE c \in DOMAIN expected_headers :
                      /\ ~HasColumn(h, expected_headers[c])
                      /\ \A b \in 1..(c - 1) : HasColumn(h, expected_headers[b])
         IN  Err(Error("schema", expected_headers[e], "Missing column"))
    ELSE Ok(TRUE)

\* headers.iter().position(|h| h.to_lowercase() == name).unwrap(), counted from 1
Position(h, name) ==
    CHOOSE i \in DOMAIN h :
        /\ ToLowercase(h[i]) = name
        /\ \A j \in 1..(i - 1) : ToLowercase(h[j]) # name

NoIndex == [month |-> 0, product |-> 0, sales |-> 0]

ColumnIndices(h) ==
    [month |-> Position(h, Month), product |-> Position(h, Product),
     sales |-> Position(h, SalesAmount)]

-----------------------------------------------------------------------------
(* The inputs the model draws.                                             *)

MonthTitle == <<"M","o","n","t","h">>

ProductUpper == <<"P","R","O","D","U","C","T">>

SalesAmountTitle == <<"S","a","l","e","s","_","A","m","o","u","n","t">>

DateName == <<"d","a","t","e">>

SalesName == <<"s","a","l","e","s">>

ColumnNames ==
    {Month, MonthTitle, Product, ProductUpper, SalesAmount, SalesAmountTitle,
     DateName, SalesName}

\* the headers drawn for schema validation alone
SchemaHeaders == SeqsUpTo(ColumnNames, MaxCols)

\* the headers drawn for a whole run
RunHeaders ==
    {<<SalesAmountTitle, MonthTitle, ProductUpper>>,
     <<DateName, Product, SalesName>>,
     <<Month, Product>>}

Jan2023 == <<"2","0","2","3","-","0","1">>

Feb2023 == <<"2","0","2","3","-","0","2">>

Month13 == <<"2","0","2","3","-","1","3">>

\* January 2023 written with one digit of month
Jan2023Short == <<"2","0","2","3","-","1">>

ProductA == <<"A">>

ProductB == <<"B">>

One == <<"1">>

\* the least power of two that has a representable successor two units away
Big == ToDecimal(Pow2(MantissaBits))

NotANumber == <<"a","b","c">>

NanUpper == <<"N","a","N">>

\* a data row as (month, product, sales_amount); the two-field row is short
WellFormedRows ==
    {<<Jan2023, ProductA, One>>, <<Jan2023, ProductA, Big>>,
     <<Jan2023, ProductB, One>>, <<Feb2023, ProductA, One>>}

NanRows == {<<Jan2023Short, ProductB, NanUpper>>}

MalformedRows ==
    {<<Month13, ProductA, One>>, <<Jan2023, ProductA, NotANumber>>,
     <<Jan2023, ProductA>>}

DataRows == WellFormedRows \cup NanRows \cup MalformedRows

\* the record of the file for a row, its fields in the header's column order
FileRecord(row, ix) ==
    IF Len(row) # 3 THEN row
    ELSE [j \in 1..3 |-> IF j = ix.month THEN row[1]
                         ELSE IF j = ix.product THEN row[2] ELSE row[3]]

-----------------------------------------------------------------------------
(* process_sales_data: the fold and the reduce.                            *)

Identity == <<EmptyMap, EmptyMap>>

\* a slip: the entry set to v (insert) instead of increased by it
AddEntryOverwrite(map, k, v) ==
    [x \in (DOMAIN map) \cup {k} |-> IF x = k THEN FAdd(Zero, v) ELSE map[x]]

\* *map.entry(k).or_insert(0.0) += v
AddEntry(map, k, v) ==
    [x \in (DOMAIN map) \cup {k} |->
        IF x = k THEN FAdd(IF k \in DOMAIN map THEN map[k] ELSE Zero, v)
        ELSE map[x]]

\* the closure given to try_fold, on one record
FoldOp(acc, record, ix) ==
    IF Len(record) # 3
    THEN Err(Error("row", <<>>, "Invalid column length in data row"))
    ELSE LET date_str == record[ix.month]
             month == ParseFromStr(date_str \o <<"-","0","1">>)
             product == record[ix.product]
             sales == ParseF64(record[ix.sales])
         IN  IF ~month.ok THEN Err(Error("date", date_str, month.err))
             ELSE IF ~sales.ok THEN Err(Error("sales", record[ix.sales], sales.err))
             ELSE Ok(<<AddEntry(acc[1], date_to_key(month.val), sales.val),
                       AddEntry(acc[2], product, sales.val)>>)

\* a slip: the entries of map inserted over those of acc
MergeMapInsert(acc, map) ==
    [k \in (DOMAIN acc) \cup (DOMAIN map) |->
        IF k \in DOMAIN map THEN map[k] ELSE acc[k]]

\* for (k, v) in map { *acc.entry(k).or_insert(0.0) += v }
MergeMap(acc, map) ==
    [k \in (DOMAIN acc) \cup (DOMAIN map) |->
        IF k \notin DOMAIN map THEN acc[k]
        ELSE FAdd(IF k \in DOMAIN acc THEN acc[k] ELSE Zero, map[k])]

\* a slip: the product maps not merged
ReduceOpMonthsOnly(acc, part) == Ok(<<MergeMap(acc[1], part[1]), acc[2]>>)

\* the closure given to try_reduce
ReduceOp(acc, part) == Ok(<<MergeMap(acc[1], part[1]), MergeMap(acc[2], part[2])>>)

\* a slip: a failed piece skipped when the other one succeeded
ReducerSkipFailed(left, right) ==
    IF left.ok /\ right.ok THEN ReduceOp(left.val, right.val)
    ELSE IF left.ok THEN left
    ELSE right

\* how try_reduce joins the results of two adjacent pieces
Reducer(left, right) ==
    IF left.ok /\ right.ok THEN ReduceOp(left.val, right.val)
    ELSE IF ~left.ok THEN left
    ELSE right

\* a piece of the parallel iterator: rows lo..hi, the next row to fold
Piece(lo, hi) == [lo |-> lo, hi |-> hi, next |-> lo, st |-> "run", res |-> Ok(Identity)]

\* the contiguous pieces cut after the positions of cuts
Pieces(n, cuts) ==
    LET ends == cuts \cup {n}
        ordered == CHOOSE s \in [1..Cardinality(ends) -> ends] :
                       \A i, j \in DOMAIN s : i < j => s[i] < s[j]
    IN  [i \in DOMAIN ordered |->
            Piece((IF i = 1 THEN 1 ELSE ordered[i - 1] + 1), ordered[i])]

-----------------------------------------------------------------------------
(* prepare_data_for_plotting.                                              *)

MonthlyEntries(map) == {<<key_to_date(k), map[k]>> : k \in DOMAIN map}

ProductEntries(map) == {<<k, map[k]>> : k \in DOMAIN map}

\* a slip: the months sorted latest first
MonthOrderDescending(a, b) == ~DateLess(a[1], b[1])

\* par_sort_unstable_by_key(|&(date, _)| date): a may stand before b
MonthOrder(a, b) == ~DateLess(b[1], a[1])

\* par_sort_unstable_by(|a, b| b.1.partial_cmp(&a.1).unwrap()): a may stand before b
ProductOrder(a, b) == PartialCmp(b[2], a[2]) \in {"Less", "Equal"}

\* partial_cmp(..).unwrap() panics on None; a sort of two or more elements
\* compares every one of them
SortPanics(entries) == Cardinality(entries) >= 2 /\ \E e \in entries : IsNaN(e[2])

\* the orders an unstable sort may leave the entries in
MonthlySorted(entries) ==
    {s \in Perms(entries) : \A i, j \in DOMAIN s : i < j => MonthOrder(s[i], s[j])}

ProductSorted(entries) ==
    {s \in Perms(entries) : \A i, j \in DOMAIN s : i < j => ProductOrder(s[i], s[j])}

\* a slip: the charts prepared whatever process_sales_data returned
MainBranchAlways(e) == "prepare"

\* the match on process_sales_data's result in main
MainBranch(e) == IF e = NoError THEN "prepare" ELSE "exit_err"

\* the chart a create_*_chart call writes
Chart(file, series) == [file |-> file, series |-> series]

-----------------------------------------------------------------------------
(* The state machine.                                                      *)

Init ==
    /\ pc = "start"
    /\ headers = <<>>
    /\ idx = NoIndex
    /\ data_rows = <<>>
    /\ records = <<>>
    /\ workers = <<>>
    /\ full = FALSE
    /\ sales_by_month = EmptyMap
    /\ sales_by_product = EmptyMap
    /\ err = NoError
    /\ monthly_data = <<>>
    /\ product_data = <<>>
    /\ charts = <<>>

\* let headers = rdr.headers()?.clone()
ReadHeaders(H) ==
    /\ pc = "start"
    /\ \E h \in H : headers' = h
    /\ pc' = "validate"
    /\ UNCHANGED <<idx, data_rows, records, workers, full, sales_by_month, sales_by_product,
                   err, monthly_data, product_data, charts>>

\* validate_csv_structure(&headers)? and the three column positions
ValidateHeaders ==
    /\ pc = "validate"
    /\ LET r == validate_csv_structure(headers)
       IN  IF r.ok
           THEN /\ idx' = ColumnIndices(headers)
                /\ pc' = "records"
                /\ err' = err
           ELSE /\ err' = r.err
                /\ pc' = "returned"
                /\ idx' = idx
    /\ UNCHANGED <<headers, data_rows, records, workers, full, sales_by_month,
                   sales_by_product, monthly_data, product_data, charts>>

\* rdr.records().collect::<Result<_, _>>()?: the reader is not flexible, so the
\* first record whose field count differs from the header's is an error
ReadRecords ==
    /\ pc = "records"
    /\ \E rows \in SeqsUpTo(DataRows, MaxRows) :
         LET rs == [i \in DOMAIN rows |-> FileRecord(rows[i], idx)]
             bad == {i \in DOMAIN rs : Len(rs[i]) # Len(headers)}
         IN  /\ data_rows' = rs
             /\ IF bad = {}
                THEN /\ records' = rs
                     /\ pc' = "split"
                     /\ err' = err
                ELSE /\ err' = CsvError(CHOOSE i \in bad : \A j \in bad : i <= j,
                                        "found record with a different number of fields")
                     /\ pc' = "returned"
                     /\ records' = records
    /\ UNCHANGED <<headers, idx, workers, full, sales_by_month, sales_by_product,
                   monthly_data, product_data, charts>>

\* records.par_iter(): the rows are cut into contiguous pieces
Split ==
    /\ pc = "split"
    /\ \E cuts \in SUBSET (1..(Len(records) - 1)) :
         workers' = Pieces(Len(records), cuts)
    /\ pc' = "fold"
    /\ UNCHANGED <<headers, idx, data_rows, records, full, sales_by_month, sales_by_product,
                   err, monthly_data, product_data, charts>>

\* a piece folds its next row: an error ends the piece and raises the flag, and
\* after its last row the piece completes, its fold going through the reduce
\* with the identity
FoldRow(w) ==
    /\ pc = "fold"
    /\ workers[w].st = "run"
    /\ workers[w].next <= workers[w].hi
    /\ LET me == workers[w]
           r == FoldOp(me.res.val, records[me.next], idx)
       IN  IF ~r.ok
           THEN /\ workers' = [workers EXCEPT ![w].res = r, ![w].st = "done"]
                /\ full' = TRUE
           ELSE IF me.next = me.hi
           THEN /\ workers' = [workers EXCEPT ![w].res = Reducer(Ok(Identity), r),
                                              ![w].next = me.next + 1,
                                              ![w].st = "done"]
                /\ full' = full
           ELSE /\ workers' = [workers EXCEPT ![w].res = r, ![w].next = me.next + 1]
                /\ full' = full
    /\ UNCHANGED <<pc, headers, idx, data_rows, records, sales_by_month, sales_by_product,
                   err, monthly_data, product_data, charts>>

\* a piece completes without folding on: it has no rows, or it has seen the
\* flag raised
FoldComplete(w) ==
    /\ pc = "fold"
    /\ workers[w].st = "run"
    /\ workers[w].lo > workers[w].hi \/ full
    /\ workers' = [workers EXCEPT ![w].res = Reducer(Ok(Identity), workers[w].res),
                                  ![w].st = "done"]
    /\ UNCHANGED <<pc, headers, idx, data_rows, records, full, sales_by_month,
                   sales_by_product, err, monthly_data, product_data, charts>>

\* two adjacent finished pieces are joined
ReduceStep(i) ==
    /\ pc = "fold"
    /\ i + 1 <= Len(workers)
    /\ workers[i].st = "done" /\ workers[i + 1].st = "done"
    /\ LET joined == [lo |-> workers[i].lo, hi |-> workers[i + 1].hi,
                      next |-> workers[i].lo, st |-> "done",
                      res |-> Reducer(workers[i].res, workers[i + 1].res)]
       IN  workers' = [j \in 1..(Len(workers) - 1) |->
                          IF j < i THEN workers[j]
                          ELSE IF j = i THEN joined
                          ELSE workers[j + 1]]
    /\ UNCHANGED <<pc, headers, idx, data_rows, records, full, sales_by_month,
                   sales_by_product, err, monthly_data, product_data, charts>>

\* the ? on the reduced result and Ok((sales_by_month, sales_by_product)); the
\* parallel iterator and its pieces are gone when the call returns
ProcessReturn ==
    /\ pc = "fold"
    /\ Len(workers) = 1
    /\ workers[1].st = "done"
    /\ IF workers[1].res.ok
       THEN /\ sales_by_month' = workers[1].res.val[1]
            /\ sales_by_product' = workers[1].res.val[2]
            /\ err' = err
       ELSE /\ err' = workers[1].res.err
            /\ UNCHANGED <<sales_by_month, sales_by_product>>
    /\ workers' = <<>>
    /\ full' = FALSE
    /\ pc' = "returned"
    /\ UNCHANGED <<headers, idx, data_rows, records, monthly_data, product_data, charts>>

\* match process_sales_data(&mut rdr)
MainMatch ==
    /\ pc = "returned"
    /\ pc' = MainBranch(err)
    /\ UNCHANGED <<headers, idx, data_rows, records, workers, full, sales_by_month,
                   sales_by_product, err, monthly_data, product_data, charts>>

\* prepare_data_for_plotting(sales_by_month, sales_by_product)
PrepareData ==
    /\ pc = "prepare"
    /\ IF SortPanics(ProductEntries(sales_by_product))
       THEN /\ pc' = "panic"
            /\ UNCHANGED <<monthly_data, product_data>>
       ELSE /\ monthly_data' \in MonthlySorted(MonthlyEntries(sales_by_month))
            /\ product_data' \in ProductSorted(ProductEntries(sales_by_product))
            /\ pc' = "line"
    /\ UNCHANGED <<headers, idx, data_rows, records, workers, full, sales_by_month,
                   sales_by_product, err, charts>>

\* create_line_chart(&monthly_data): first().unwrap() panics on an empty series
CreateLineChart ==
    /\ pc = "line"
    /\ IF monthly_data = <<>>
       THEN /\ pc' = "panic"
            /\ charts' = charts
       ELSE /\ charts' = Append(charts, Chart("line_chart.png", monthly_data))
            /\ pc' = "bar"
    /\ UNCHANGED <<headers, idx, data_rows, records, workers, full, sales_by_month,
                   sales_by_product, err, monthly_data, product_data>>

\* create_bar_chart(&product_data)
CreateBarChart ==
    /\ pc = "bar"
    /\ charts' = Append(charts, Chart("bar_chart.png", product_data))
    /\ pc' = "pie"
    /\ UNCHANGED <<headers, idx, data_rows, records, workers, full, sales_by_month,
                   sales_by_product, err, monthly_data, product_data>>

\* create_pie_chart(&product_data)
CreatePieChart ==
    /\ pc = "pie"
    /\ charts' = Append(charts, Chart("pie_chart.png", product_data))
    /\ pc' = "done"
    /\ UNCHANGED <<headers, idx, data_rows, records, workers, full, sales_by_month,
                   sales_by_product, err, monthly_data, product_data>>

Next ==
    \/ ReadHeaders(RunHeaders)
    \/ ValidateHeaders
    \/ ReadRecords
    \/ Split
    \/ \E w \in DOMAIN workers : FoldRow(w)
    \/ \E w \in DOMAIN workers : FoldComplete(w)
    \/ \E i \in DOMAIN workers : ReduceStep(i)
    \/ ProcessReturn
    \/ MainMatch
    \/ PrepareData
    \/ CreateLineChart
    \/ CreateBarChart
    \/ CreatePieChart

Spec == Init /\ [][Next]_vars

-----------------------------------------------------------------------------
(* Schema validation alone, on every header of up to MaxCols columns.      *)

NextSchema ==
    \/ ReadHeaders(SchemaHeaders)
    \/ ValidateHeaders

SpecSchema == Init /\ [][NextSchema]_vars

-----------------------------------------------------------------------------
(* prepare_data_for_plotting alone, on every pair of aggregates of up to   *)
(* MaxKeys entries.                                                        *)

PlotMonths == {date_to_key(Date(2023 + (i \div 3), ((7 * i) % 12) + 1, 1)) : i \in 1..MaxKeys}

PlotProducts == {<<UpperChars[i]>> : i \in 1..MaxKeys}

PlotValues == {Fin(1), Fin(2), NaN}

Maps(K, V) == UNION {[D -> V] : D \in SUBSET K}

InitPlot ==
    /\ pc = "prepare"
    /\ headers = <<>>
    /\ idx = NoIndex
    /\ data_rows = <<>>
    /\ records = <<>>
    /\ workers = <<>>
    /\ full = FALSE
    /\ sales_by_month \in Maps(PlotMonths, PlotValues)
    /\ sales_by_product \in Maps(PlotProducts, PlotValues)
    /\ err = NoError
    /\ monthly_data = <<>>
    /\ product_data = <<>>
    /\ charts = <<>>

NextPlot == PrepareData

SpecPlot == InitPlot /\ [][NextPlot]_vars

-----------------------------------------------------------------------------
(* What the properties below speak of, stated on the text of the input and *)
(* not through the parser.                                                 *)

\* YYYY-MM with MM a month of the calendar
IsYearMonth(s) ==
    /\ Len(s) = 7
    /\ \A i \in {1, 2, 3, 4, 6, 7} : IsDigit(s[i])
    /\ s[5] = "-"
    /\ DecimalValue(s, 6, 7) \in 1..12

\* a text that gives a date of the calendar once "-01" is appended: a year of
\* up to four digits, "-", a month of one or two digits between 1 and 12
IsCalendarMonth(s) ==
    LET ny == CountDigits(s, 1, 4)
    IN  /\ ny >= 1
        /\ Len(s) \in {ny + 2, ny + 3}
        /\ s[ny + 1] = "-"
        /\ \A i \in (ny + 2)..Len(s) : IsDigit(s[i])
        /\ DecimalValue(s, ny + 2, Len(s)) \in 1..12

\* an unsigned decimal numeral
IsNumeral(s) == s # <<>> /\ \A i \in DOMAIN s : IsDigit(s[i])

\* a text Rust reads as an f64: a numeral, a signed numeral, or NaN
IsFloatText(s) ==
    \/ IsNumeral(s)
    \/ Len(s) >= 2 /\ s[1] \in {"+", "-"} /\ IsNumeral(Tail(s))
    \/ ToLowercase(s) = NanText

MonthField(r) == r[idx.month]

ProductField(r) == r[idx.product]

SalesField(r) == r[idx.sales]

\* a row the parser must reject
Malformed(r) ==
    Len(r) # 3 \/ ~IsCalendarMonth(MonthField(r)) \/ ~IsFloatText(SalesField(r))

\* a row of the input format: three fields, a YYYY-MM month, a decimal amount
ValidRow(r) == Len(r) = 3 /\ IsYearMonth(MonthField(r)) /\ IsNumeral(SalesField(r))

AllValid(rows) == \A i \in DOMAIN rows : ValidRow(rows[i])

\* the key of the month a well-formed row names
MonthKeyOf(r) ==
    LET s == MonthField(r)
        ny == CountDigits(s, 1, 4)
    IN  date_to_key(Date(DecimalValue(s, 1, ny), DecimalValue(s, ny + 2, Len(s)), 1))

AmountOf(r) == DecimalValue(SalesField(r), 1, Len(SalesField(r)))

RowMonths(rows) == {MonthKeyOf(rows[i]) : i \in DOMAIN rows}

RowProducts(rows) == {ProductField(rows[i]) : i \in DOMAIN rows}

\* the amounts, in row order, of the rows whose ordinal is in keep
RECURSIVE AmountsAt(_, _, _)
AmountsAt(rows, keep, i) ==
    IF i > Len(rows) THEN <<>>
    ELSE IF i \in keep THEN <<AmountOf(rows[i])>> \o AmountsAt(rows, keep, i + 1)
    ELSE AmountsAt(rows, keep, i + 1)

AmountsOfMonth(rows, k) ==
    AmountsAt(rows, {i \in DOMAIN rows : MonthKeyOf(rows[i]) = k}, 1)

AmountsOfProduct(rows, p) ==
    AmountsAt(rows, {i \in DOMAIN rows : ProductField(rows[i]) = p}, 1)

AllAmounts(rows) == AmountsAt(rows, DOMAIN rows, 1)

\* the f64 sums of a non-empty sequence of amounts, added in their order under
\* every grouping
RECURSIVE FloatSums(_)
FloatSums(a) ==
    IF Len(a) = 1 THEN {Round(a[1])}
    ELSE UNION {{Round(x + y) : x \in FloatSums(SubSeq(a, 1, i)),
                                y \in FloatSums(SubSeq(a, i + 1, Len(a)))} :
                i \in 1..(Len(a) - 1)}

\* v is the exact sum of amounts up to the rounding of at most Len - 1 additions
\* (relative error 2^-MantissaBits each)
WithinRounding(v, amounts) ==
    LET n == Len(amounts)
    IN  Abs(v - SumSeq(amounts)) * (Pow2(MantissaBits) - (n - 1)) <= (n - 1) * SumAbs(amounts)

\* no addition of these amounts can round
SumsExactly(amounts) == SumAbs(amounts) <= Pow2(MantissaBits)

RECURSIVE SumValues(_, _)
SumValues(map, keys) ==
    IF keys = {} THEN 0
    ELSE LET k == CHOOSE x \in keys : TRUE
         IN  map[k].v + SumValues(map, keys \ {k})

Total(map) == SumValues(map, DOMAIN map)

\* process_sales_data has returned Ok with the two aggregates
Aggregated == pc \in {"returned", "prepare", "line", "bar", "pie", "done", "panic"} /\ err = NoError

Validated == pc \in {"records", "returned"}

-----------------------------------------------------------------------------
(* C7: schema validation accepts a header exactly when it has three        *)
(* columns whose names, lower-cased, are month, product and sales_amount   *)
(* in some order; a refusal reports the column count or else the first     *)
(* missing name; on acceptance the three indices are the positions of the  *)
(* columns carrying those names.                                           *)

LowerNames(h) == {ToLowercase(h[i]) : i \in DOMAIN h}

Acceptable(h) == Len(h) = 3 /\ LowerNames(h) = {Month, Product, SalesAmount}

FirstMissing(h) ==
    IF Month \notin LowerNames(h) THEN Month
    ELSE IF Product \notin LowerNames(h) THEN Product
    ELSE SalesAmount

C7_SchemaAcceptance ==
    Validated =>
        /\ (pc = "records") <=> Acceptable(headers)
        /\ pc = "records" =>
              /\ err = NoError
              /\ {idx.month, idx.product, idx.sales} = 1..3
              /\ ToLowercase(headers[idx.month]) = Month
              /\ ToLowercase(headers[idx.product]) = Product
              /\ ToLowercase(headers[idx.sales]) = SalesAmount
        /\ pc = "returned" =>
              /\ idx = NoIndex
              /\ err.kind = "schema"
              /\ Len(headers) # 3 => err.cause = "Invalid column length"
              /\ Len(headers) = 3 =>
                    err.cause = "Missing column" /\ err.text = FirstMissing(headers)

\* the header of the specification's example, accepted with its columns found
C7_Witness ==
    /\ pc = "records"
    /\ headers = <<SalesAmountTitle, MonthTitle, ProductUpper>>
    /\ idx = [month |-> 2, product |-> 3, sales |-> 1]

-----------------------------------------------------------------------------
(* C8: the monthly series prepare_data_for_plotting returns holds one      *)
(* (month, sum) pair for each key of the monthly aggregate, its sum        *)
(* unchanged, and is strictly ascending by month.                          *)

C8_MonthlySeries ==
    pc = "line" =>
        /\ Len(monthly_data) = Cardinality(DOMAIN sales_by_month)
        /\ \A k \in DOMAIN sales_by_month :
              \E i \in DOMAIN monthly_data :
                  /\ date_to_key(monthly_data[i][1]) = k
                  /\ monthly_data[i][2] = sales_by_month[k]
        /\ \A i, j \in DOMAIN monthly_data :
              i < j => /\ date_to_key(monthly_data[i][1]) < date_to_key(monthly_data[j][1])
                       /\ DateLess(monthly_data[i][1], monthly_data[j][1])

\* three months of two years, drawn out of order, come out in order
C8_Witness ==
    /\ pc = "line"
    /\ Len(monthly_data) = 3
    /\ monthly_data[1][1].y < monthly_data[3][1].y
    /\ monthly_data[1][2] # monthly_data[2][2]

-----------------------------------------------------------------------------
(* C1: on valid rows the monthly aggregate has exactly the months of the   *)
(* rows as keys and the product aggregate exactly their products, and the  *)
(* value at each key is a sum of the amounts of all rows of that key.      *)

KeysExact ==
    /\ DOMAIN sales_by_month = RowMonths(records)
    /\ DOMAIN sales_by_product = RowProducts(records)

\* as first stated: every value is the exact sum
C1_ExactSums ==
    (Aggregated /\ AllValid(records)) =>
        /\ KeysExact
        /\ \A k \in DOMAIN sales_by_month :
              sales_by_month[k] = Fin(SumSeq(AmountsOfMonth(records, k)))
        /\ \A p \in DOMAIN sales_by_product :
              sales_by_product[p] = Fin(SumSeq(AmountsOfProduct(records, p)))

\* C1, amended: every value is an f64 sum of the amounts of the rows of its key,
\* added in row order under some grouping, hence the exact sum when no addition
\* can round
C1_Aggregates ==
    (Aggregated /\ AllValid(records)) =>
        /\ KeysExact
        /\ \A k \in DOMAIN sales_by_month :
              LET a == AmountsOfMonth(records, k)
              IN  /\ ~IsNaN(sales_by_month[k])
                  /\ sales_by_month[k].v \in FloatSums(a)
                  /\ SumsExactly(a) => sales_by_month[k].v = SumSeq(a)
        /\ \A p \in DOMAIN sales_by_product :
              LET a == AmountsOfProduct(records, p)
              IN  /\ ~IsNaN(sales_by_product[p])
                  /\ sales_by_product[p].v \in FloatSums(a)
                  /\ SumsExactly(a) => sales_by_product[p].v = SumSeq(a)

\* three valid rows of two months and two products, one sum rounded
C1_Witness ==
    /\ Aggregated /\ AllValid(records)
    /\ Len(records) = 3
    /\ Cardinality(DOMAIN sales_by_month) = 2
    /\ Cardinality(DOMAIN sales_by_product) = 2
    /\ \E k \in DOMAIN sales_by_month :
          sales_by_month[k].v # SumSeq(AmountsOfMonth(records, k))

-----------------------------------------------------------------------------
(* C2: on valid rows the values of the monthly aggregate and the values of *)
(* the product aggregate both add up to the total of the amounts.          *)

\* as first stated: the three totals are equal
C2_TotalsEqual ==
    (Aggregated /\ AllValid(records)) =>
        /\ Total(sales_by_month) = SumSeq(AllAmounts(records))
        /\ Total(sales_by_product) = SumSeq(AllAmounts(records))

\* C2, amended: each total is the total of the amounts up to the rounding of the
\* additions, and the three are equal when no addition can round
C2_TotalsConserved ==
    (Aggregated /\ AllValid(records)) =>
        LET a == AllAmounts(records)
        IN  /\ WithinRounding(Total(sales_by_month), a)
            /\ WithinRounding(Total(sales_by_product), a)
            /\ SumsExactly(a) =>
                  /\ Total(sales_by_month) = SumSeq(a)
                  /\ Total(sales_by_product) = SumSeq(a)

\* one axis rounded and the other did not
C2_Witness ==
    /\ Aggregated /\ AllValid(records)
    /\ Len(records) >= 2
    /\ Total(sales_by_month) # Total(sales_by_product)
    /\ Total(sales_by_product) = SumSeq(AllAmounts(records))

-----------------------------------------------------------------------------
(* C3: on valid rows the pair of aggregates does not depend on how the     *)
(* rows are cut into pieces nor on the order the partial results are       *)
(* joined in: it is the pair one worker folding all rows in order gets.    *)

RECURSIVE FoldAll(_, _, _)
FoldAll(acc, rows, i) ==
    IF i > Len(rows) THEN acc
    ELSE FoldAll(FoldOp(acc, rows[i], idx).val, rows, i + 1)

\* one worker, one piece: the rows folded in order
OneWorker(rows) == FoldAll(Identity, rows, 1)

\* as first stated: the same pair, bit for bit
C3_SameForEveryChunking ==
    (Aggregated /\ AllValid(records)) =>
        <<sales_by_month, sales_by_product>> = OneWorker(records)

CloseValues(v, w, amounts) ==
    LET n == Len(amounts)
    IN  Abs(v.v - w.v) * (Pow2(MantissaBits) - (n - 1)) <= 2 * (n - 1) * SumAbs(amounts)

\* C3, amended: the same key sets for every chunking and joining order; at each
\* key values that differ by no more than the rounding of the additions, and the
\* same value when no addition can round
C3_ChunkingUpToRounding ==
    (Aggregated /\ AllValid(records)) =>
        LET one == OneWorker(records)
        IN  /\ DOMAIN sales_by_month = DOMAIN one[1]
            /\ DOMAIN sales_by_product = DOMAIN one[2]
            /\ \A k \in DOMAIN sales_by_month :
                  LET a == AmountsOfMonth(records, k)
                  IN  /\ CloseValues(sales_by_month[k], one[1][k], a)
                      /\ SumsExactly(a) => sales_by_month[k] = one[1][k]
            /\ \A p \in DOMAIN sales_by_product :
                  LET a == AmountsOfProduct(records, p)
                  IN  /\ CloseValues(sales_by_product[p], one[2][p], a)
                      /\ SumsExactly(a) => sales_by_product[p] = one[2][p]

\* a chunking whose result differs from the one-worker result
C3_Witness ==
    /\ Aggregated /\ AllValid(records)
    /\ Len(records) = 3
    /\ <<sales_by_month, sales_by_product>> # OneWorker(records)

-----------------------------------------------------------------------------
(* C4: a malformed row anywhere in the input makes the aggregation fail    *)
(* with an error about such a row; no aggregate is returned and no chart   *)
(* drawn.                                                                  *)

RowsRead == pc \notin {"start", "validate", "records"} /\ idx # NoIndex

HasMalformed == \E i \in DOMAIN data_rows : Malformed(data_rows[i])

ErrorIsAbout(e, r, i) ==
    \/ e.kind = "csv" /\ Len(r) # 3 /\ e.row = i
    \/ e.kind = "date" /\ Len(r) = 3 /\ e.text = MonthField(r) /\ ~IsCalendarMonth(e.text)
    \/ e.kind = "sales" /\ Len(r) = 3 /\ e.text = SalesField(r) /\ ~IsFloatText(e.text)

-----------------------------------------------------------------------------
(* C5: with several bad rows the error reported is that of the first bad   *)
(* row in row order, whatever the chunking and the scheduling.             *)

FirstMalformed == CHOOSE i \in DOMAIN data_rows :
                      Malformed(data_rows[i]) /\ \A j \in 1..(i - 1) : ~Malformed(data_rows[j])

C5_FirstBadRowReported ==
    (RowsRead /\ HasMalformed /\ pc \in {"returned", "exit_err"}) =>
        ErrorIsAbout(err, data_rows[FirstMalformed], FirstMalformed)

-----------------------------------------------------------------------------
(* C6: a valid header and no data row end the run in a reported error:     *)
(* never in a panic, never in a chart.                                     *)

EmptyInput == RowsRead /\ data_rows = <<>>

C6_EmptyInputReported ==
    EmptyInput => pc \notin {"panic", "bar", "pie", "done"} /\ charts = <<>>

-----------------------------------------------------------------------------
(* C9: for every non-empty product aggregate the product series returned   *)
(* holds one (product, sum) pair for each key, its sum unchanged, and is   *)
(* non-increasing by sum.                                                  *)

Prepared == pc \in {"line", "bar", "pie", "done", "panic"}

C9_ProductSeries ==
    (Prepared /\ sales_by_product # EmptyMap) =>
        /\ pc # "panic"
        /\ Len(product_data) = Cardinality(DOMAIN sales_by_product)
        /\ \A k \in DOMAIN sales_by_product :
              \E i \in DOMAIN product_data :
                  product_data[i] = <<k, sales_by_product[k]>>
        /\ \A i, j \in DOMAIN product_data :
              i < j => PartialCmp(product_data[i][2], product_data[j][2]) \in {"Greater", "Equal"}

-----------------------------------------------------------------------------
(* C10: the charts are drawn only after every piece has finished and the   *)
(* partial results are joined into the final aggregate, from that          *)
(* aggregate; when the aggregation fails no chart is drawn.                *)

Rendering == pc \in {"prepare", "line", "bar", "pie", "done"} \/ charts # <<>>

C10_RenderAfterAggregation ==
    /\ Rendering =>
          /\ workers = <<>> /\ ~full /\ err = NoError
          /\ DOMAIN sales_by_month = RowMonths(records)
          /\ DOMAIN sales_by_product = RowProducts(records)
          /\ \A c \in DOMAIN charts :
                /\ charts[c].series = IF c = 1 THEN monthly_data ELSE product_data
                /\ Range(monthly_data) = {<<key_to_date(k), sales_by_month[k]>> :
                                             k \in DOMAIN sales_by_month}
                /\ Range(product_data) = {<<k, sales_by_product[k]>> :
                                             k \in DOMAIN sales_by_product}
    /\ pc \in {"split", "fold"} =>
          /\ charts = <<>> /\ monthly_data = <<>> /\ product_data = <<>>
          /\ sales_by_month = EmptyMap /\ sales_by_product = EmptyMap
    /\ err # NoError => charts = <<>> /\ pc \in {"returned", "exit_err"}

\* the three charts drawn from the aggregate of three rows
C10_Witness ==
    /\ pc = "done"
    /\ Len(charts) = 3
    /\ Len(records) = 3
    /\ Len(monthly_data) = 2

=============================================================================
